---- MODULE Spec2Model ----
(***************************************************************************)
(* A model of the example C++ library of msl-loadlib                       *)
(* (src/msl/examples/loadlib/cpp_lib.cpp, cpp_lib.h).                      *)
(*                                                                         *)
(* The library exports eight functions through a C interface.  A call is   *)
(* modelled as a frame of a calling thread: the caller sets the arguments  *)
(* up (Call...), the function body runs one statement or one loop          *)
(* iteration at a time (Run...), and the caller takes the result           *)
(* (Finish, Keep).  Memory is a map from buffer addresses to element       *)
(* sequences; element indices are 0-based as in the source.                *)
(*                                                                         *)
(* Numbers.  int is the 32-bit two's complement int of the platforms the   *)
(* library is built for.  float and double values are drawn from small     *)
(* integers, on which -, + and * are exact in IEEE arithmetic.  sqrt is    *)
(* irrational in general and is rounded: a double result of sqrt is        *)
(* modelled in binary fixed point with FracBits fractional bits.           *)
(***************************************************************************)
EXTENDS Integers, Sequences, FiniteSets, TLC

VARIABLES frame, mem, live, owned

vars == <<frame, mem, live, owned>>

(***************************************************************************)
(* Bounds of the model.                                                    *)
(***************************************************************************)
MaxLen == 3        \* longest caller array / string of the sequential runs
MaxPts == 4        \* longest caller Point array of the sequential runs
ConcLen == 2       \* longest caller array / string of the concurrent runs
HeapSize == 3      \* number of addresses operator new[] can hand out
FracBits == 4      \* fractional bits kept of a rounded double

(***************************************************************************)
(* Program constants.                                                      *)
(***************************************************************************)
INT_MAX == 2147483647
INT_MIN == -INT_MAX - 1
HalfWord == 65536
HalfSign == 32768
NFour == 4          \* Point points[4] of FourPoints

Threads == {1, 2}
SeqThreads == {1}

BufA(t) == 3 * (t - 1) + 1
BufB(t) == 3 * (t - 1) + 2
BufC(t) == 3 * (t - 1) + 3
CallerAddrs == {BufA(1), BufB(1), BufC(1), BufA(2), BufB(2), BufC(2)}
Heap == (BufC(2) + 1) .. (BufC(2) + HeapSize)
Addr == CallerAddrs \cup Heap

Uninit == "?"      \* an element of a new[] buffer nobody has written yet
Fill == "#"        \* what the caller pre-fills its char output buffer with

Point(px, py) == [x |-> px, y |-> py]
Origin == Point(0, 0)

(***************************************************************************)
(* Memory.                                                                 *)
(***************************************************************************)
InBuf(m, a, idx) == a \in DOMAIN m /\ idx >= 0 /\ idx < Len(m[a])

\* p[idx]; outside the buffer the read is undefined and yields dflt here
\* (no call of the model reads outside: the callers pass n <= length).
Read(m, a, idx, dflt) == IF InBuf(m, a, idx) THEN m[a][idx + 1] ELSE dflt

\* p[idx] = v
Write(m, a, idx, v) ==
    IF InBuf(m, a, idx) THEN [m EXCEPT ![a] = [@ EXCEPT ![idx + 1] = v]] ELSE m

Rd(a, idx) == <<"r", a, idx>>
Wr(a, idx) == <<"w", a, idx>>

(***************************************************************************)
(* Arithmetic.                                                             *)
(***************************************************************************)
Lo(a) == a % HalfWord
Hi(a) == (a \div HalfWord) % HalfWord

\* a + b in a 32-bit register: the two 16-bit halves with the carry between.
Add32(a, b) ==
    LET slo == Lo(a) + Lo(b)
        rlo == slo % HalfWord
        rhi == (Hi(a) + Hi(b) + (slo \div HalfWord)) % HalfWord
    IN  IF rhi >= HalfSign THEN (rhi - HalfWord) * HalfWord + rlo
        ELSE rhi * HalfWord + rlo

add_saturating(a, b) ==
    IF b >= 0 /\ a > INT_MAX - b THEN INT_MAX
    ELSE IF b < 0 /\ a < INT_MIN - b THEN INT_MIN
    ELSE a + b

\* int add(int a, int b).  The sum of two ints that overflows is undefined in
\* C++; the documented build (g++ -fPIC -shared, no -ftrapv) and MSVC both
\* compile this exported function to one machine add, which wraps.
add(a, b) == Add32(a, b)

\* float subtract(float a, float b)
subtract(a, b) == a - b

\* double add_or_subtract(double a, double b, bool do_addition)
add_or_subtract(a, b, do_addition) == IF do_addition THEN a + b ELSE a - b

RECURSIVE pow(_, _)
\* pow(b, e) of <math.h>, for the integral exponents the source uses
pow(b, e) == IF e = 0 THEN 1 ELSE b * pow(b, e - 1)

Scale == 2 ^ FracBits

RECURSIVE SqrtUp(_, _)
SqrtUp(v, r) == IF (r + 1) * (r + 1) > v THEN r ELSE SqrtUp(v, r + 1)

\* sqrt of <math.h> of the integer-valued double q, rounded down to a multiple
\* of 1/Scale and given in units of 1/Scale.
sqrt(q) == SqrtUp(q * Scale * Scale, 0)

distance_manhattan(p1, p2) ==
    LET ax == IF p1.x >= p2.x THEN p1.x - p2.x ELSE p2.x - p1.x
        ay == IF p1.y >= p2.y THEN p1.y - p2.y ELSE p2.y - p1.y
    IN  (ax + ay) * Scale

\* double distance(Point p1, Point p2), in units of 1/Scale
distance(p1, p2) == sqrt(pow(p1.x - p2.x, 2) + pow(p1.y - p2.y, 2))

(***************************************************************************)
(* Inputs.  A profile is the set of arguments the callers of one           *)
(* specification draw from.  Arrays and strings are caller buffers of the  *)
(* profile's length; n ranges from nmin to that length (exact: n is the    *)
(* length), so that the buffers always hold at least n elements.           *)
(***************************************************************************)
IntSamples == {INT_MIN, INT_MIN + 1, -2, -1, 0, 1, 2, INT_MAX - 1, INT_MAX}
PointSamples == {Point(0, 0), Point(3, 4), Point(1, 1)}

SeqP == [ints |-> IntSamples,
         floats |-> {-3, 0, 2},
         scalars |-> {-2, 0, 3},
         xs |-> [1 .. MaxLen -> {-1, 0, 2}],
         fill |-> 99,
         strs |-> [1 .. MaxLen -> {"a", "b", "c"}],
         ptss |-> [1 .. MaxPts -> PointSamples],
         four |-> [1 .. NFour -> PointSamples],
         nmin |-> -1,
         exact |-> FALSE,
         alias |-> BOOLEAN]

ConcP == [ints |-> {INT_MAX, 1},
          floats |-> {0, 2},
          scalars |-> {3},
          xs |-> [1 .. ConcLen -> {-1, 2}],
          fill |-> 99,
          strs |-> [1 .. ConcLen -> {"a", "b"}],
          ptss |-> [1 .. ConcLen -> {Point(0, 0), Point(3, 4)}],
          four |-> {<<Point(0, 0), Point(3, 4), Point(1, 1), Point(3, 4)>>},
          nmin |-> -1,
          exact |-> FALSE,
          alias |-> {FALSE}]

HeapP == [SeqP EXCEPT !.strs = {<<>>, <<"a", "b">>, <<"a", "b", "c">>},
                      !.exact = TRUE]

Ns(P, arr) == IF P.exact THEN {Len(arr)} ELSE P.nmin .. Len(arr)

(***************************************************************************)
(* Frames.  fn is the function called, pc where its body stands: "start"   *)
(* before the first statement, "loop" at the test of the for loop, "done"  *)
(* after return, "thrown" when an exception left the function.             *)
(*   a, b, flag   scalar arguments          n     the length argument      *)
(*   src, dst     the input and output pointers (0: none)                  *)
(*   pts          the FourPoints argument, copied by value                 *)
(*   i, d         the locals of the body    ret   the value returned       *)
(*   log          the element accesses of the body, in program order       *)
(*   terms        the index pairs distance() was called on, in order       *)
(*   in0, out0    what the input and output buffers held at the call       *)
(*   chain, s0    the call reverses the result of the caller's previous    *)
(*                reversal, whose input held s0                            *)
(* owned[t] is what caller t holds of the buffers reverse_string_v2        *)
(* returned to it: the address and what the buffer held when returned.     *)
(* live is the set of new[] buffers not deleted yet.                       *)
(***************************************************************************)
Idle == [fn |-> "idle", pc |-> "idle", a |-> 0, b |-> 0, flag |-> FALSE,
         n |-> 0, src |-> 0, dst |-> 0, pts |-> <<>>, i |-> 0, d |-> 0,
         ret |-> 0, log |-> <<>>, terms |-> <<>>, in0 |-> <<>>, out0 |-> <<>>,
         chain |-> FALSE, s0 |-> <<>>]

Init ==
    /\ frame = [t \in Threads |-> Idle]
    /\ mem = [a \in Addr |-> <<>>]
    /\ live = {}
    /\ owned = [t \in Threads |-> {}]

Out(f, m) == [f |-> f, m |-> m]

(***************************************************************************)
(* The function bodies.  Each takes the frame and the memory and gives the *)
(* frame and the memory after one statement or one loop iteration.         *)
(***************************************************************************)
add_body(f, m) == Out([f EXCEPT !.ret = add(f.a, f.b), !.pc = "done"], m)

subtract_body(f, m) == Out([f EXCEPT !.ret = subtract(f.a, f.b), !.pc = "done"], m)

add_or_subtract_body(f, m) ==
    Out([f EXCEPT !.ret = add_or_subtract(f.a, f.b, f.flag), !.pc = "done"], m)

scalar_multiply_inclusive(f, m) ==
    IF f.i <= f.n
    THEN Out([f EXCEPT !.i = @ + 1,
                       !.log = @ \o <<Rd(f.src, f.i), Wr(f.dst, f.i)>>],
             Write(m, f.dst, f.i, f.a * Read(m, f.src, f.i, 0)))
    ELSE Out([f EXCEPT !.pc = "done"], m)

\* void scalar_multiply(double a, double* xin, int n, double* xout)
scalar_multiply(f, m) ==
    IF f.i < f.n
    THEN Out([f EXCEPT !.i = @ + 1,
                       !.log = @ \o <<Rd(f.src, f.i), Wr(f.dst, f.i)>>],
             Write(m, f.dst, f.i, f.a * Read(m, f.src, f.i, 0)))
    ELSE Out([f EXCEPT !.pc = "done"], m)

reverse_string_v1_short(f, m) ==
    IF f.i < f.n - 1
    THEN Out([f EXCEPT !.i = @ + 1,
                       !.log = @ \o <<Rd(f.src, f.n - f.i - 1), Wr(f.dst, f.i)>>],
             Write(m, f.dst, f.i, Read(m, f.src, f.n - f.i - 1, Uninit)))
    ELSE Out([f EXCEPT !.pc = "done"], m)

reverse_string_v1_forward(f, m) ==
    IF f.i < f.n
    THEN Out([f EXCEPT !.i = @ + 1,
                       !.log = @ \o <<Rd(f.src, f.i), Wr(f.dst, f.i)>>],
             Write(m, f.dst, f.i, Read(m, f.src, f.i, Uninit)))
    ELSE Out([f EXCEPT !.pc = "done"], m)

\* void reverse_string_v1(const char* original, int n, char* reversed)
reverse_string_v1(f, m) ==
    IF f.i < f.n
    THEN Out([f EXCEPT !.i = @ + 1,
                       !.log = @ \o <<Rd(f.src, f.n - f.i - 1), Wr(f.dst, f.i)>>],
             Write(m, f.dst, f.i, Read(m, f.src, f.n - f.i - 1, Uninit)))
    ELSE Out([f EXCEPT !.pc = "done"], m)

\* operator new[]: the addresses it may return, none of them of a live buffer
operator_new(lv) == Heap \ lv

reverse_string_v2_new_inplace(f, m, addr) ==
    IF f.n < 0
    THEN Out([f EXCEPT !.pc = "thrown"], m)
    ELSE Out([f EXCEPT !.dst = f.src, !.pc = "loop"], m)

reverse_string_v2_new_static(f, m, addr) ==
    IF f.n < 0
    THEN Out([f EXCEPT !.pc = "thrown"], m)
    ELSE Out([f EXCEPT !.dst = BufC(1), !.pc = "loop"],
             [m EXCEPT ![BufC(1)] = [k \in 1 .. f.n |-> Uninit]])

\* char* reversed = new char[n];  addr is the address operator new[] returns,
\* 0 when it has none left; a negative n or no address left throws.
reverse_string_v2_new(f, m, addr) ==
    IF f.n < 0 \/ addr = 0
    THEN Out([f EXCEPT !.pc = "thrown"], m)
    ELSE Out([f EXCEPT !.dst = addr, !.pc = "loop"],
             [m EXCEPT ![addr] = [k \in 1 .. f.n |-> Uninit]])

reverse_string_v2_off_by_one(f, m) ==
    IF f.i < f.n
    THEN Out([f EXCEPT !.i = @ + 1,
                       !.log = @ \o <<Rd(f.src, f.n - f.i), Wr(f.dst, f.i)>>],
             Write(m, f.dst, f.i, Read(m, f.src, f.n - f.i, Uninit)))
    ELSE Out([f EXCEPT !.ret = f.dst, !.pc = "done"], m)

\* the loop and the return of char* reverse_string_v2(char* original, int n)
reverse_string_v2(f, m) ==
    IF f.i < f.n
    THEN Out([f EXCEPT !.i = @ + 1,
                       !.log = @ \o <<Rd(f.src, f.n - f.i - 1), Wr(f.dst, f.i)>>],
             Write(m, f.dst, f.i, Read(m, f.src, f.n - f.i - 1, Uninit)))
    ELSE Out([f EXCEPT !.ret = f.dst, !.pc = "done"], m)

distance_4_points_forward(f, m) ==
    IF f.pc = "start"
    THEN Out([f EXCEPT !.d = distance(f.pts[1], f.pts[4]), !.i = 1, !.pc = "loop",
                       !.terms = <<<<0, 3>>>>], m)
    ELSE IF f.i < NFour - 1
    THEN Out([f EXCEPT !.d = @ + distance(f.pts[f.i + 1], f.pts[f.i + 2]),
                       !.i = @ + 1,
                       !.terms = @ \o <<<<f.i, f.i + 1>>>>], m)
    ELSE Out([f EXCEPT !.ret = f.d, !.pc = "done"], m)

\* double distance_4_points(FourPoints p)
distance_4_points(f, m) ==
    IF f.pc = "start"
    THEN Out([f EXCEPT !.d = distance(f.pts[1], f.pts[4]), !.i = 1, !.pc = "loop",
                       !.terms = <<<<0, 3>>>>], m)
    ELSE IF f.i < NFour
    THEN Out([f EXCEPT !.d = @ + distance(f.pts[f.i + 1], f.pts[f.i]),
                       !.i = @ + 1,
                       !.terms = @ \o <<<<f.i, f.i - 1>>>>], m)
    ELSE Out([f EXCEPT !.ret = f.d, !.pc = "done"], m)

distance_n_points_unguarded(f, m) ==
    IF f.pc = "start"
    THEN Out([f EXCEPT !.d = distance(Read(m, f.src, 0, Origin),
                                      Read(m, f.src, f.n - 1, Origin)),
                       !.i = 1, !.pc = "loop",
                       !.log = <<Rd(f.src, 0), Rd(f.src, f.n - 1)>>,
                       !.terms = <<<<0, f.n - 1>>>>], m)
    ELSE IF f.i < f.n
    THEN Out([f EXCEPT !.d = @ + distance(Read(m, f.src, f.i, Origin),
                                          Read(m, f.src, f.i - 1, Origin)),
                       !.i = @ + 1,
                       !.log = @ \o <<Rd(f.src, f.i), Rd(f.src, f.i - 1)>>,
                       !.terms = @ \o <<<<f.i, f.i - 1>>>>], m)
    ELSE Out([f EXCEPT !.ret = f.d, !.pc = "done"], m)

\* double distance_n_points(NPoints p)
distance_n_points(f, m) ==
    IF f.pc = "start"
    THEN IF f.n < 2
         THEN Out([f EXCEPT !.ret = 0, !.pc = "done"], m)
         ELSE Out([f EXCEPT !.d = distance(Read(m, f.src, 0, Origin),
                                           Read(m, f.src, f.n - 1, Origin)),
                            !.i = 1, !.pc = "loop",
                            !.log = <<Rd(f.src, 0), Rd(f.src, f.n - 1)>>,
                            !.terms = <<<<0, f.n - 1>>>>], m)
    ELSE IF f.i < f.n
    THEN Out([f EXCEPT !.d = @ + distance(Read(m, f.src, f.i, Origin),
                                          Read(m, f.src, f.i - 1, Origin)),
                       !.i = @ + 1,
                       !.log = @ \o <<Rd(f.src, f.i), Rd(f.src, f.i - 1)>>,
                       !.terms = @ \o <<<<f.i, f.i - 1>>>>], m)
    ELSE Out([f EXCEPT !.ret = f.d, !.pc = "done"], m)

(***************************************************************************)
(* The caller's side of a call.                                            *)
(***************************************************************************)
Filled(len, v) == [k \in 1 .. len |-> v]

CallAdd(t, P) ==
    /\ frame[t].pc = "idle"
    /\ \E a \in P.ints, b \in P.ints :
          frame' = [frame EXCEPT ![t] =
                       [Idle EXCEPT !.fn = "add", !.pc = "start", !.a = a, !.b = b]]
    /\ UNCHANGED <<mem, live, owned>>

CallSubtract(t, P) ==
    /\ frame[t].pc = "idle"
    /\ \E a \in P.floats, b \in P.floats :
          frame' = [frame EXCEPT ![t] =
                       [Idle EXCEPT !.fn = "subtract", !.pc = "start", !.a = a, !.b = b]]
    /\ UNCHANGED <<mem, live, owned>>

CallAddOrSubtract(t, P) ==
    /\ frame[t].pc = "idle"
    /\ \E a \in P.floats, b \in P.floats, c \in BOOLEAN :
          frame' = [frame EXCEPT ![t] =
                       [Idle EXCEPT !.fn = "add_or_subtract", !.pc = "start",
                                    !.a = a, !.b = b, !.flag = c]]
    /\ UNCHANGED <<mem, live, owned>>

\* xin is the caller's buffer A; xout its buffer B, or A again when aliased.
CallScalarMultiply(t, P) ==
    /\ frame[t].pc = "idle"
    /\ \E a \in P.scalars, xin \in P.xs, al \in P.alias :
       \E n \in Ns(P, xin) :
          LET xout == IF al THEN xin ELSE Filled(Len(xin), P.fill)
              dst == IF al THEN BufA(t) ELSE BufB(t)
          IN  /\ frame' = [frame EXCEPT ![t] =
                             [Idle EXCEPT !.fn = "scalar_multiply", !.pc = "loop",
                                          !.a = a, !.n = n, !.src = BufA(t),
                                          !.dst = dst, !.in0 = xin, !.out0 = xout]]
              /\ mem' = [mem EXCEPT ![BufA(t)] = xin, ![dst] = xout]
    /\ UNCHANGED <<live, owned>>

Apply(t, r) ==
    /\ frame' = [frame EXCEPT ![t] = r.f]
    /\ mem' = r.m

RunAdd(t) ==
    /\ frame[t].fn = "add" /\ frame[t].pc = "start"
    /\ Apply(t, add_body(frame[t], mem))
    /\ UNCHANGED <<live, owned>>

RunSubtract(t) ==
    /\ frame[t].fn = "subtract" /\ frame[t].pc = "start"
    /\ Apply(t, subtract_body(frame[t], mem))
    /\ UNCHANGED <<live, owned>>

RunAddOrSubtract(t) ==
    /\ frame[t].fn = "add_or_subtract" /\ frame[t].pc = "start"
    /\ Apply(t, add_or_subtract_body(frame[t], mem))
    /\ UNCHANGED <<live, owned>>

RunScalarMultiply(t) ==
    /\ frame[t].fn = "scalar_multiply" /\ frame[t].pc = "loop"
    /\ Apply(t, scalar_multiply(frame[t], mem))
    /\ UNCHANGED <<live, owned>>

\* The caller has read the results: it drops its buffers and deletes the
\* buffers it got from reverse_string_v2.
OwnedAddrs(t) == {o.addr : o \in owned[t]}

Held(t) ==
    OwnedAddrs(t) \cup (IF frame[t].dst \in Heap THEN {frame[t].dst} ELSE {})

Holding(t) ==
    owned[t] \cup (IF frame[t].dst \in Heap
                   THEN {[addr |-> frame[t].dst, data |-> mem[frame[t].dst]]}
                   ELSE {})

Finish(t) ==
    /\ frame[t].pc \in {"done", "thrown"}
    /\ frame' = [frame EXCEPT ![t] = Idle]
    /\ mem' = [a \in Addr |->
                 IF a \in {BufA(t), BufB(t), BufC(t)} \cup Held(t) THEN <<>> ELSE mem[a]]
    /\ live' = live \ Held(t)
    /\ owned' = [owned EXCEPT ![t] = {}]

\* original is the caller's buffer A; reversed its buffer B, or A when aliased.
CallReverseV1(t, P) ==
    /\ frame[t].pc = "idle"
    /\ \E str \in P.strs, al \in P.alias :
       \E n \in Ns(P, str) :
          LET out == IF al THEN str ELSE Filled(Len(str), Fill)
              dst == IF al THEN BufA(t) ELSE BufB(t)
          IN  /\ frame' = [frame EXCEPT ![t] =
                             [Idle EXCEPT !.fn = "reverse_string_v1", !.pc = "loop",
                                          !.n = n, !.src = BufA(t), !.dst = dst,
                                          !.in0 = str, !.out0 = out]]
              /\ mem' = [mem EXCEPT ![BufA(t)] = str, ![dst] = out]
    /\ UNCHANGED <<live, owned>>

CallReverseV2(t, P) ==
    /\ frame[t].pc = "idle"
    /\ \E str \in P.strs :
       \E n \in Ns(P, str) :
          /\ frame' = [frame EXCEPT ![t] =
                         [Idle EXCEPT !.fn = "reverse_string_v2", !.pc = "start",
                                      !.n = n, !.src = BufA(t), !.in0 = str]]
          /\ mem' = [mem EXCEPT ![BufA(t)] = str]
    /\ UNCHANGED <<live, owned>>

\* The caller reverses the result of the reversal that has just returned:
\* with reverse_string_v1 into its buffer C, or with reverse_string_v2.
Chainable(t) ==
    /\ frame[t].pc = "done"
    /\ frame[t].fn \in {"reverse_string_v1", "reverse_string_v2"}
    /\ ~frame[t].chain
    /\ frame[t].n >= 0
    /\ frame[t].dst # frame[t].src

ChainReverseV1(t) ==
    /\ Chainable(t)
    /\ frame' = [frame EXCEPT ![t] =
                   [Idle EXCEPT !.fn = "reverse_string_v1", !.pc = "loop",
                                !.n = frame[t].n, !.src = frame[t].dst,
                                !.dst = BufC(t), !.in0 = mem[frame[t].dst],
                                !.out0 = Filled(frame[t].n, Fill),
                                !.chain = TRUE, !.s0 = frame[t].in0]]
    /\ mem' = [mem EXCEPT ![BufC(t)] = Filled(frame[t].n, Fill)]
    /\ owned' = [owned EXCEPT ![t] = Holding(t)]
    /\ UNCHANGED live

ChainReverseV2(t) ==
    /\ Chainable(t)
    /\ frame' = [frame EXCEPT ![t] =
                   [Idle EXCEPT !.fn = "reverse_string_v2", !.pc = "start",
                                !.n = frame[t].n, !.src = frame[t].dst,
                                !.in0 = mem[frame[t].dst],
                                !.chain = TRUE, !.s0 = frame[t].in0]]
    /\ owned' = [owned EXCEPT ![t] = Holding(t)]
    /\ UNCHANGED <<mem, live>>

CallDistance4Points(t, P) ==
    /\ frame[t].pc = "idle"
    /\ \E pts \in P.four :
          frame' = [frame EXCEPT ![t] =
                       [Idle EXCEPT !.fn = "distance_4_points", !.pc = "start",
                                    !.pts = pts, !.in0 = pts]]
    /\ UNCHANGED <<mem, live, owned>>

\* p.points is the caller's buffer A.
CallDistanceNPoints(t, P) ==
    /\ frame[t].pc = "idle"
    /\ \E pts \in P.ptss :
       \E n \in Ns(P, pts) :
          /\ frame' = [frame EXCEPT ![t] =
                         [Idle EXCEPT !.fn = "distance_n_points", !.pc = "start",
                                      !.n = n, !.src = BufA(t), !.in0 = pts]]
          /\ mem' = [mem EXCEPT ![BufA(t)] = pts]
    /\ UNCHANGED <<live, owned>>

RunReverseV1(t) ==
    /\ frame[t].fn = "reverse_string_v1" /\ frame[t].pc = "loop"
    /\ Apply(t, reverse_string_v1(frame[t], mem))
    /\ UNCHANGED <<live, owned>>

RunReverseV2New(t) ==
    /\ frame[t].fn = "reverse_string_v2" /\ frame[t].pc = "start"
    /\ \E addr \in (IF operator_new(live) = {} THEN {0} ELSE operator_new(live)) :
          LET r == reverse_string_v2_new(frame[t], mem, addr)
          IN  /\ Apply(t, r)
              /\ live' = IF r.f.pc = "loop" THEN live \cup {r.f.dst} ELSE live
    /\ UNCHANGED owned

RunReverseV2(t) ==
    /\ frame[t].fn = "reverse_string_v2" /\ frame[t].pc = "loop"
    /\ Apply(t, reverse_string_v2(frame[t], mem))
    /\ UNCHANGED <<live, owned>>

RunDistance4Points(t) ==
    /\ frame[t].fn = "distance_4_points" /\ frame[t].pc \in {"start", "loop"}
    /\ Apply(t, distance_4_points(frame[t], mem))
    /\ UNCHANGED <<live, owned>>

RunDistanceNPoints(t) ==
    /\ frame[t].fn = "distance_n_points" /\ frame[t].pc \in {"start", "loop"}
    /\ Apply(t, distance_n_points(frame[t], mem))
    /\ UNCHANGED <<live, owned>>

\* The caller keeps the buffer reverse_string_v2 returned, for a later delete[].
Keep(t) ==
    /\ frame[t].pc = "done" /\ frame[t].fn = "reverse_string_v2"
    /\ frame' = [frame EXCEPT ![t] = Idle]
    /\ mem' = [mem EXCEPT ![BufA(t)] = <<>>]
    /\ owned' = [owned EXCEPT ![t] = Holding(t)]
    /\ UNCHANGED live

\* delete[] of a buffer the caller kept
Release(t) ==
    /\ frame[t].pc = "idle"
    /\ \E o \in owned[t] :
          /\ owned' = [owned EXCEPT ![t] = @ \ {o}]
          /\ live' = live \ {o.addr}
          /\ mem' = [mem EXCEPT ![o.addr] = <<>>]
    /\ UNCHANGED frame

(***************************************************************************)
(* Specifications.                                                         *)
(*   Spec      one caller, every function, the caller deleting what        *)
(*             reverse_string_v2 returned as soon as it has read it        *)
(*   SpecHeap  one caller of reverse_string_v2 that keeps the buffers      *)
(*             returned and deletes them when it likes                     *)
(*   SpecConc  two threads calling every function, each on its own memory  *)
(***************************************************************************)
Next ==
    \E t \in SeqThreads :
        \/ CallAdd(t, SeqP)
        \/ CallSubtract(t, SeqP)
        \/ CallAddOrSubtract(t, SeqP)
        \/ CallScalarMultiply(t, SeqP)
        \/ CallReverseV1(t, SeqP)
        \/ CallReverseV2(t, SeqP)
        \/ ChainReverseV1(t)
        \/ ChainReverseV2(t)
        \/ CallDistance4Points(t, SeqP)
        \/ CallDistanceNPoints(t, SeqP)
        \/ RunAdd(t)
        \/ RunSubtract(t)
        \/ RunAddOrSubtract(t)
        \/ RunScalarMultiply(t)
        \/ RunReverseV1(t)
        \/ RunReverseV2New(t)
        \/ RunReverseV2(t)
        \/ RunDistance4Points(t)
        \/ RunDistanceNPoints(t)
        \/ Finish(t)

Spec == Init /\ [][Next]_vars

NextHeap ==
    \E t \in SeqThreads :
        \/ CallReverseV2(t, HeapP)
        \/ RunReverseV2New(t)
        \/ RunReverseV2(t)
        \/ Keep(t)
        \/ Release(t)
        \/ Finish(t)

SpecHeap == Init /\ [][NextHeap]_vars

NextConc ==
    \E t \in Threads :
        \/ CallAdd(t, ConcP)
        \/ CallSubtract(t, ConcP)
        \/ CallAddOrSubtract(t, ConcP)
        \/ CallScalarMultiply(t, ConcP)
        \/ CallReverseV1(t, ConcP)
        \/ CallReverseV2(t, ConcP)
        \/ CallDistance4Points(t, ConcP)
        \/ CallDistanceNPoints(t, ConcP)
        \/ RunAdd(t)
        \/ RunSubtract(t)
        \/ RunAddOrSubtract(t)
        \/ RunScalarMultiply(t)
        \/ RunReverseV1(t)
        \/ RunReverseV2New(t)
        \/ RunReverseV2(t)
        \/ RunDistance4Points(t)
        \/ RunDistanceNPoints(t)
        \/ Finish(t)

SpecConc == Init /\ [][NextConc]_vars

(***************************************************************************)
(* A call run alone: the body applied from the call's first statement to   *)
(* its return, on a memory that holds the call's own buffers only.         *)
(***************************************************************************)
Body(f, m) ==
    CASE f.fn = "add" -> add_body(f, m)
      [] f.fn = "subtract" -> subtract_body(f, m)
      [] f.fn = "add_or_subtract" -> add_or_subtract_body(f, m)
      [] f.fn = "scalar_multiply" -> scalar_multiply(f, m)
      [] f.fn = "reverse_string_v1" -> reverse_string_v1(f, m)
      [] f.fn = "reverse_string_v2" ->
            IF f.pc = "start"
            THEN reverse_string_v2_new(f, m, CHOOSE a \in Heap : TRUE)
            ELSE reverse_string_v2(f, m)
      [] f.fn = "distance_4_points" -> distance_4_points(f, m)
      [] f.fn = "distance_n_points" -> distance_n_points(f, m)

RECURSIVE Complete(_, _)
Complete(f, m) ==
    IF f.pc \in {"start", "loop"}
    THEN LET r == Body(f, m) IN Complete(r.f, r.m)
    ELSE Out(f, m)

StartPc(fn) ==
    IF fn \in {"scalar_multiply", "reverse_string_v1"} THEN "loop" ELSE "start"

AtCall(f) ==
    [f EXCEPT !.pc = StartPc(f.fn), !.i = 0, !.d = 0, !.ret = 0,
              !.log = <<>>, !.terms = <<>>,
              !.dst = IF f.fn = "reverse_string_v2" THEN 0 ELSE @]

MemAtCall(f) ==
    [a \in Addr |-> IF a = f.src THEN f.in0
                    ELSE IF a = f.dst /\ f.fn # "reverse_string_v2" THEN f.out0
                    ELSE <<>>]

Alone(f) == Complete(AtCall(f), MemAtCall(f))

Returned(t, fn) == frame[t].fn = fn /\ frame[t].pc = "done"

Writes(f) == {k \in 1 .. Len(f.log) : f.log[k][1] = "w"}

(***************************************************************************)
(* C1.  scalar_multiply(a, xin, n, xout), n >= 0, xin and xout distinct    *)
(* buffers of at least n elements: after the call xout[i] = a * xin[i] for *)
(* every i in [0, n); with n = 0 nothing is written and xout is unchanged. *)
(***************************************************************************)
C1_ScalarMultiply ==
    \A t \in Threads :
        LET f == frame[t] IN
        (Returned(t, "scalar_multiply") /\ f.n >= 0 /\ f.dst # f.src) =>
            /\ \A i \in 0 .. f.n - 1 : mem[f.dst][i + 1] = f.a * f.in0[i + 1]
            /\ f.n = 0 => (Writes(f) = {} /\ mem[f.dst] = f.out0)

C1_Witness ==
    \E t \in Threads :
        /\ Returned(t, "scalar_multiply")
        /\ frame[t].n = Len(frame[t].in0) /\ frame[t].n >= 2
        /\ frame[t].dst # frame[t].src
        /\ frame[t].a = 3
        /\ mem[frame[t].dst][1] = -3 /\ mem[frame[t].dst][2] = 6

(***************************************************************************)
(* C2.  reverse_string_v1(original, n, reversed), n >= 0, the two buffers  *)
(* not aliasing: after the call reversed[i] = original[n-1-i] for every i  *)
(* in [0, n).                                                              *)
(***************************************************************************)
C2_ReverseV1 ==
    \A t \in Threads :
        LET f == frame[t] IN
        (Returned(t, "reverse_string_v1") /\ f.n >= 0 /\ f.dst # f.src) =>
            \A i \in 0 .. f.n - 1 : mem[f.dst][i + 1] = f.in0[(f.n - 1 - i) + 1]

C2_Witness ==
    \E t \in Threads :
        /\ Returned(t, "reverse_string_v1")
        /\ frame[t].n = 3 /\ frame[t].dst # frame[t].src
        /\ SubSeq(frame[t].in0, 1, 3) = <<"a", "b", "c">>
        /\ SubSeq(mem[frame[t].dst], 1, 3) = <<"c", "b", "a">>

(***************************************************************************)
(* C3.  Reversing twice gives the original back: s reversed into t and t   *)
(* reversed into u, the three buffers distinct, leaves u equal to s on     *)
(* [0, n), whichever of reverse_string_v1 and reverse_string_v2 does       *)
(* either step.                                                            *)
(***************************************************************************)
C3_DoubleReversal ==
    \A t \in Threads :
        LET f == frame[t] IN
        (f.chain /\ f.pc = "done") =>
            /\ Len(mem[f.dst]) >= f.n
            /\ \A i \in 0 .. f.n - 1 : mem[f.dst][i + 1] = f.s0[i + 1]

C3_Witness ==
    \E t \in Threads :
        /\ frame[t].chain /\ Returned(t, "reverse_string_v1")
        /\ frame[t].src \in Heap
        /\ frame[t].n = 3
        /\ SubSeq(frame[t].s0, 1, 3) = <<"a", "a", "b">>
        /\ mem[frame[t].src] = <<"b", "a", "a">>
        /\ mem[frame[t].dst] = <<"a", "a", "b">>

(***************************************************************************)
(* C4.  reverse_string_v2(original, n) returns a newly allocated buffer of *)
(* n elements that holds the reverse of original.  Over any sequence of    *)
(* calls, keeps and deletes by the caller: the buffer returned is not the  *)
(* input buffer and none of the buffers returned earlier and not deleted   *)
(* yet; the input buffer is as it was; and every buffer the caller holds   *)
(* is still allocated and still holds what it held when returned (the      *)
(* library neither deletes nor writes a buffer it has handed over).        *)
(***************************************************************************)
C4_ReverseV2Ownership ==
    \A t \in Threads :
        LET f == frame[t] IN
        /\ Returned(t, "reverse_string_v2") =>
              /\ f.ret \in Heap /\ f.ret \in live
              /\ Len(mem[f.ret]) = f.n
              /\ \A i \in 0 .. f.n - 1 : mem[f.ret][i + 1] = f.in0[(f.n - 1 - i) + 1]
              /\ f.ret # f.src
              /\ f.ret \notin OwnedAddrs(t)
              /\ mem[f.src] = f.in0
        /\ \A o \in owned[t] : o.addr \in live /\ mem[o.addr] = o.data
        /\ Cardinality(OwnedAddrs(t)) = Cardinality(owned[t])

C4_Witness ==
    \E t \in Threads :
        /\ Returned(t, "reverse_string_v2")
        /\ frame[t].n = 3
        /\ mem[frame[t].ret] = <<"c", "b", "a">>
        /\ Cardinality(owned[t]) = 2
        /\ \E o \in owned[t] : o.data = <<"b", "a">>

(***************************************************************************)
(* The Euclidean distance sqrt((x1-x2)^2 + (y1-y2)^2) as the claims state  *)
(* it: the multiple of 1/Scale just below or at the root.                  *)
(***************************************************************************)
Euclid(p1, p2) ==
    LET q == (p1.x - p2.x) * (p1.x - p2.x) + (p1.y - p2.y) * (p1.y - p2.y)
    IN  CHOOSE r \in 0 .. q * Scale :
            r * r <= q * Scale * Scale /\ (r + 1) * (r + 1) > q * Scale * Scale

\* the sum over i in [1, k] of Euclid(p[i], p[i-1]), p indexed from 0
RECURSIVE Segments(_, _)
Segments(p, k) ==
    IF k < 1 THEN 0 ELSE Segments(p, k - 1) + Euclid(p[k + 1], p[k])

FourFrame(pts) ==
    [Idle EXCEPT !.fn = "distance_4_points", !.pc = "start", !.pts = pts, !.in0 = pts]

NFrame(pts, n) ==
    [Idle EXCEPT !.fn = "distance_n_points", !.pc = "start", !.n = n,
                 !.src = BufA(1), !.in0 = pts]

FourTerms == <<<<0, 3>>, <<1, 0>>, <<2, 1>>, <<3, 2>>>>

(***************************************************************************)
(* C5.  On the same four points in the same order distance_n_points with   *)
(* n = 4 and distance_4_points return exactly the same value, adding the   *)
(* same terms in the same order: d(p0,p3) + d(p1,p0) + d(p2,p1) + d(p3,p2).*)
(***************************************************************************)
C5_FourAndNAgree ==
    \A t \in Threads :
        LET f == frame[t]
            p == f.in0
            sum == ((Euclid(p[1], p[4]) + Euclid(p[2], p[1]))
                       + Euclid(p[3], p[2])) + Euclid(p[4], p[3])
        IN
        /\ (Returned(t, "distance_n_points") /\ f.n = NFour) =>
              LET g == Alone(FourFrame(SubSeq(p, 1, NFour))).f
              IN  f.ret = g.ret /\ f.terms = g.terms
                  /\ f.terms = FourTerms /\ f.ret = sum
        /\ Returned(t, "distance_4_points") =>
              LET g == Alone(NFrame(p, NFour)).f
              IN  f.ret = g.ret /\ f.terms = g.terms
                  /\ f.terms = FourTerms /\ f.ret = sum

C5_Witness ==
    \E t \in Threads :
        /\ Returned(t, "distance_n_points") /\ frame[t].n = NFour
        /\ SubSeq(frame[t].in0, 1, NFour)
              = <<Point(0, 0), Point(3, 4), Point(1, 1), Point(3, 4)>>
        /\ frame[t].ret = Alone(FourFrame(SubSeq(frame[t].in0, 1, NFour))).f.ret
        /\ frame[t].ret > 10 * Scale

(***************************************************************************)
(* C6.  distance_n_points(p) returns 0.0 if p.n < 2, and otherwise         *)
(* distance(p[0], p[n-1]) plus the sum over i in [1, n) of                 *)
(* distance(p[i], p[i-1]), distance being the Euclidean distance.          *)
(***************************************************************************)
C6_DistanceNPoints ==
    \A t \in Threads :
        LET f == frame[t] IN
        Returned(t, "distance_n_points") =>
            f.ret = IF f.n < 2 THEN 0
                    ELSE Euclid(f.in0[1], f.in0[f.n]) + Segments(f.in0, f.n - 1)

C6_Witness ==
    \E t \in Threads :
        /\ Returned(t, "distance_n_points") /\ frame[t].n = 3
        /\ SubSeq(frame[t].in0, 1, 3) = <<Point(0, 0), Point(3, 4), Point(1, 1)>>
        /\ frame[t].ret > 9 * Scale /\ frame[t].ret < 11 * Scale

(***************************************************************************)
(* C7.  add(a, b) returns a + b for every pair of ints, and when the sum   *)
(* is outside the range of int it returns the sum modulo 2^32 read as a    *)
(* signed 32-bit value: a + b - 2^32 above the range, a + b + 2^32 below.  *)
(***************************************************************************)
WrappedSum(a, b) ==
    IF b >= 0 /\ a > INT_MAX - b THEN (a + INT_MIN) + (b + INT_MIN)
    ELSE IF b < 0 /\ a < INT_MIN - b THEN (a + INT_MAX + 1) + (b + INT_MAX + 1)
    ELSE a + b

C7_AddWraps ==
    \A t \in Threads :
        Returned(t, "add") =>
            /\ frame[t].ret = WrappedSum(frame[t].a, frame[t].b)
            /\ frame[t].ret >= INT_MIN /\ frame[t].ret <= INT_MAX

C7_Witness ==
    \E t \in Threads :
        /\ Returned(t, "add")
        /\ frame[t].a = INT_MAX /\ frame[t].b = 1
        /\ frame[t].ret = INT_MIN

(***************************************************************************)
(* C8.  Calls from several threads, each on memory of its own, interleave  *)
(* freely, and every call ends as it ends when run alone: the same return, *)
(* the same return value (for reverse_string_v2 the same contents of the   *)
(* buffer returned) and the same contents of its input and output buffers. *)
(***************************************************************************)
C8_SameAsAlone ==
    \A t \in Threads :
        LET f == frame[t] IN
        f.pc \in {"done", "thrown"} =>
            LET r == Alone(f) IN
            /\ f.pc = r.f.pc
            /\ IF f.fn = "reverse_string_v2"
               THEN f.pc = "done" => mem[f.ret] = r.m[r.f.ret]
               ELSE f.ret = r.f.ret /\ f.dst = r.f.dst
            /\ f.src # 0 => mem[f.src] = r.m[f.src]
            /\ (f.dst # 0 /\ f.fn # "reverse_string_v2") => mem[f.dst] = r.m[f.dst]

C8_Witness ==
    /\ Returned(1, "reverse_string_v2") /\ frame[1].n = 2
    /\ mem[frame[1].ret] = <<"b", "a">>
    /\ frame[2].fn = "reverse_string_v2" /\ frame[2].pc = "loop"
    /\ frame[2].i = 1 /\ frame[2].n = 2
    /\ frame[2].in0 = <<"a", "b">>
    /\ frame[2].dst # frame[1].ret

(***************************************************************************)
(* C9.  Buffer accesses stay in bounds.  Every element scalar_multiply,    *)
(* reverse_string_v1, reverse_string_v2 and distance_n_points read is an   *)
(* element of the input array with index in [0, n-1]; every element the    *)
(* first three write is an element of the output array with index in       *)
(* [0, n-1]; distance_n_points writes nothing; the input array, when it is *)
(* not also the output array, keeps its contents; and for n <= 0           *)
(* scalar_multiply and reverse_string_v1 access no element.                *)
(***************************************************************************)
C9_AccessesInBounds ==
    \A t \in Threads :
        LET f == frame[t] IN
        f.fn \in {"scalar_multiply", "reverse_string_v1", "reverse_string_v2",
                  "distance_n_points"} =>
            /\ \A k \in 1 .. Len(f.log) :
                  LET e == f.log[k] IN
                  /\ e[3] >= 0 /\ e[3] <= f.n - 1
                  /\ InBuf(mem, e[2], e[3])
                  /\ e[1] = "r" => e[2] = f.src
                  /\ e[1] = "w" => (e[2] = f.dst /\ f.fn # "distance_n_points")
            /\ f.dst # f.src => mem[f.src] = f.in0
            /\ (f.n <= 0 /\ f.fn \in {"scalar_multiply", "reverse_string_v1"}) =>
                  f.log = <<>>

C9_Witness ==
    \E t \in Threads :
        /\ Returned(t, "reverse_string_v2") /\ frame[t].n = 3
        /\ Len(mem[frame[t].src]) = 3
        /\ frame[t].log = <<Rd(frame[t].src, 2), Wr(frame[t].dst, 0),
                            Rd(frame[t].src, 1), Wr(frame[t].dst, 1),
                            Rd(frame[t].src, 0), Wr(frame[t].dst, 2)>>

(***************************************************************************)
(* C10.  distance_n_points with n = 2 counts the one segment twice: it     *)
(* returns distance(p0, p1) + distance(p1, p0), twice the distance between *)
(* the two points; with n < 2, negative n included, it returns 0.0 and     *)
(* reads no element of the points array.                                   *)
(***************************************************************************)
C10_TwoPointsTwice ==
    \A t \in Threads :
        LET f == frame[t] IN
        /\ (Returned(t, "distance_n_points") /\ f.n = 2) =>
              /\ f.ret = Euclid(f.in0[1], f.in0[2]) + Euclid(f.in0[2], f.in0[1])
              /\ f.ret = 2 * Euclid(f.in0[1], f.in0[2])
        /\ (f.fn = "distance_n_points" /\ f.n < 2) =>
              /\ f.log = <<>>
              /\ f.pc = "done" => f.ret = 0

C10_Witness ==
    \E t \in Threads :
        /\ Returned(t, "distance_n_points") /\ frame[t].n = 2
        /\ frame[t].in0[1] = Point(0, 0) /\ frame[t].in0[2] = Point(3, 4)
        /\ frame[t].ret = 10 * Scale

====
